---------------------------- MODULE Spec2Model ----------------------------
(***************************************************************************)
(* A model of the string_more crate (src/src/lib.rs): the StrExt            *)
(* comparators and boundary scanners over UTF-8 byte strings, and the       *)
(* StringExt in-place operations over a growable byte buffer.               *)
(*                                                                          *)
(* A string is a sequence of bytes (integers 0..255).  A byte of the        *)
(* buffer that set_len exposed and nothing has written yet is Uninit.       *)
(* Offsets are the source's 0-based byte offsets; TLA+ sequences are        *)
(* 1-based, so byte offset i of s is s[i + 1].                              *)
(***************************************************************************)
EXTENDS Integers, Sequences, FiniteSets, TLC

VARIABLES
    buf,    \* the String the in-place operations act on (its bytes)
    cap,    \* the capacity of that String
    last,   \* the last in-place call: its name, the code path it took
    a,      \* first argument (self) of a comparator call
    b,      \* second argument (other) of a comparator call
    same,   \* whether a and b are the same instance (equal pointers)
    out     \* the result of the last comparator call

vars == <<buf, cap, last, a, b, same, out>>

---------------------------------------------------------------------------
(* Bounds of the model.                                                    *)

\* Longest comparator argument, in code points.
MaxChars == 2

\* Longest buffer the in-place operations are let to build, in bytes.
MaxLen == 6

\* Largest repetition count (times, count) drawn; tab widths go one further.
MaxTimes == 2

\* Longest buffer a call is started on, in code points.
MaxBufChars == 3

---------------------------------------------------------------------------
(* Code points the inputs are drawn from, as UTF-8.                        *)

LatinA    == <<97>>               \* 'a'
Tab       == <<9>>                \* '\t'
Space     == <<32>>               \* ' '
EAcute    == <<195, 169>>         \* U+00E9
Euro      == <<226, 130, 172>>    \* U+20AC
Kip       == <<226, 130, 173>>    \* U+20AD: shares Euro's first two bytes
GeorgianN == <<225, 130, 173>>    \* U+10AD: shares Kip's last two bytes,
                                  \* and only the middle byte with Euro

Nbsp      == <<194, 160>>         \* U+00A0: a two-byte whitespace code point

CmpAlphabet == {LatinA, EAcute, Euro, Kip, GeorgianN}

RECURSIVE StringsUpTo(_, _)
StringsUpTo(alphabet, n) ==
    IF n = 0 THEN {<<>>}
    ELSE LET shorter == StringsUpTo(alphabet, n - 1)
         IN  shorter \cup {s \o c : s \in shorter, c \in alphabet}

---------------------------------------------------------------------------
(* UTF-8: the standard library's view of a str.                            *)

Min(x, y) == IF x < y THEN x ELSE y

\* A continuation byte is 10xxxxxx.
IsContinuation(byte) == byte >= 128 /\ byte < 192

\* u8 of a buffer position nothing has written since set_len.
Uninit == -1

\* Width of the code point a leading byte starts; 0 for a byte that starts none.
Utf8Width(byte) ==
    IF byte >= 0 /\ byte < 128 THEN 1
    ELSE IF byte >= 194 /\ byte < 224 THEN 2
    ELSE IF byte >= 224 /\ byte < 240 THEN 3
    ELSE IF byte >= 240 /\ byte < 245 THEN 4
    ELSE 0

\* The second byte's range depends on the leading byte (no overlong forms,
\* no surrogates, nothing above U+10FFFF).
SecondByteOk(lead, byte) ==
    CASE lead = 224 -> byte >= 160 /\ byte < 192
      [] lead = 237 -> byte >= 128 /\ byte < 160
      [] lead = 240 -> byte >= 144 /\ byte < 192
      [] lead = 244 -> byte >= 128 /\ byte < 144
      [] OTHER      -> IsContinuation(byte)

RECURSIVE ValidFrom(_, _)
ValidFrom(s, i) ==
    IF i = Len(s) THEN TRUE
    ELSE LET w == Utf8Width(s[i + 1])
         IN  /\ w > 0
             /\ i + w <= Len(s)
             /\ w >= 2 => SecondByteOk(s[i + 1], s[i + 2])
             /\ \A k \in 3..w : IsContinuation(s[i + k])
             /\ ValidFrom(s, i + w)

\* core::str::from_utf8(s).is_ok()
IsUtf8(s) == ValidFrom(s, 0)

\* str::is_char_boundary
is_char_boundary(s, index) ==
    IF index = 0 THEN TRUE
    ELSE IF index >= Len(s) THEN index = Len(s)
    ELSE ~IsContinuation(s[index + 1])

\* The scalar value of the code point that starts at byte offset i.
DecodeAt(s, i) ==
    LET w == Utf8Width(s[i + 1])
    IN  CASE w = 1 -> s[i + 1]
          [] w = 2 -> (s[i + 1] - 192) * 64 + (s[i + 2] - 128)
          [] w = 3 -> (s[i + 1] - 224) * 4096 + (s[i + 2] - 128) * 64
                          + (s[i + 3] - 128)
          [] OTHER -> (s[i + 1] - 240) * 262144 + (s[i + 2] - 128) * 4096
                          + (s[i + 3] - 128) * 64 + (s[i + 4] - 128)

\* str::chars, collected: the code points of a valid UTF-8 string.
RECURSIVE CharsFrom(_, _)
CharsFrom(s, i) ==
    IF i >= Len(s) THEN <<>>
    ELSE <<DecodeAt(s, i)>> \o CharsFrom(s, i + Utf8Width(s[i + 1]))

chars(s) == CharsFrom(s, 0)

\* &s[from..to] on bytes.
Slice(s, from, to) == SubSeq(s, from + 1, to)

\* &s[from..to] on a str faults unless both ends are char boundaries in order.
SliceOk(s, from, to) ==
    from <= to /\ to <= Len(s) /\ is_char_boundary(s, from) /\ is_char_boundary(s, to)

Reverse(s) == [i \in 1..Len(s) |-> s[Len(s) + 1 - i]]

\* x.zip(y).take_while(|(l, r)| l == r).count()
RECURSIVE ZipTakeWhileEq(_, _)
ZipTakeWhileEq(x, y) ==
    IF x = <<>> \/ y = <<>> \/ Head(x) # Head(y) THEN 0
    ELSE 1 + ZipTakeWhileEq(Tail(x), Tail(y))

---------------------------------------------------------------------------
(* Boundary scanners.                                                      *)

\* A plausible slip: an if where the while is, so one step is taken at most.
NextBoundaryOneStep(s, index) ==
    IF is_char_boundary(s, index) THEN index ELSE index + 1

RECURSIVE NextBoundaryLoop(_, _)
NextBoundaryLoop(s, index) ==
    IF is_char_boundary(s, index) THEN index ELSE NextBoundaryLoop(s, index + 1)

next_char_boundary(s, index) ==
    IF index > Len(s) THEN Len(s) ELSE NextBoundaryLoop(s, index)

\* A plausible slip: an if where the while is, so one step is taken at most.
PreviousBoundaryOneStep(s, index) ==
    IF is_char_boundary(s, index) THEN index ELSE index - 1

RECURSIVE previous_char_boundary(_, _)
previous_char_boundary(s, index) ==
    IF is_char_boundary(s, index) THEN index
    ELSE previous_char_boundary(s, index - 1)

---------------------------------------------------------------------------
(* StrExt::levenshtein_distance.                                           *)

\* A plausible slip: the raw common byte run is used as it is.
AlignSuffixRaw(source, end) == end

\* while !source.is_char_boundary(source.len() - end) { end -= 1; }
RECURSIVE AlignSuffix(_, _)
AlignSuffix(source, end) ==
    IF is_char_boundary(source, Len(source) - end) THEN end
    ELSE AlignSuffix(source, end - 1)

\* while !source.is_char_boundary(start) { start -= 1; }
RECURSIVE AlignPrefix(_, _)
AlignPrefix(source, start) ==
    IF is_char_boundary(source, start) THEN start
    ELSE AlignPrefix(source, start - 1)

\* A plausible slip: the comparison is turned round, and the shorter
\* remainder ends up as source.
OrderForRowTurnedRound(source, target) ==
    IF Len(source) > Len(target)
    THEN [source |-> target, target |-> source]
    ELSE [source |-> source, target |-> target]

\* The pair handed to the rolling row: source feeds the outer loop, target
\* the inner loop and the size of costs.
OrderForRow(source, target) ==
    IF Len(source) < Len(target)
    THEN [source |-> target, target |-> source]
    ELSE [source |-> source, target |-> target]

\* The inner loop, from target_index on: the row and the corner it leaves.
RECURSIVE RowInner(_, _, _, _, _)
RowInner(costs, corner, source_char, target_chars, target_index) ==
    IF target_index >= Len(target_chars) THEN costs
    ELSE LET upper == costs[target_index + 2]
             cell  == IF source_char = target_chars[target_index + 1]
                      THEN corner
                      ELSE 1 + Min(Min(costs[target_index + 1], upper), corner)
         IN  RowInner([costs EXCEPT ![target_index + 2] = cell], upper,
                      source_char, target_chars, target_index + 1)

\* The outer loop, from source_index on.
RECURSIVE RowOuter(_, _, _, _)
RowOuter(costs, source_chars, target_chars, source_index) ==
    IF source_index >= Len(source_chars) THEN costs
    ELSE RowOuter(RowInner([costs EXCEPT ![1] = source_index + 1], source_index,
                           source_chars[source_index + 1], target_chars, 0),
                  source_chars, target_chars, source_index + 1)

\* let mut costs = (0..=target_len).collect::<Vec<_>>()
InitialCosts(target) == [i \in 1..(Len(chars(target)) + 1) |-> i - 1]

\* The rolling single-row DP over the ordered pair.
RollingRow(source, target) ==
    LET target_chars == chars(target)
        target_len   == Len(target_chars)
        costs        == InitialCosts(target)
    IN  RowOuter(costs, chars(source), target_chars, 0)[target_len + 1]

\* A plausible slip: the second shortcut returns source.len(), the byte count.
DistanceOfRemaindersByteCount(source, target) ==
    IF source = <<>> THEN Len(chars(target))
    ELSE IF target = <<>> THEN Len(source)
    ELSE LET row == OrderForRow(source, target)
         IN  RollingRow(row.source, row.target)

\* What is left after the common suffix and prefix are stripped: the two
\* shortcuts for an empty remainder, then the DP.
DistanceOfRemainders(source, target) ==
    IF source = <<>> THEN Len(chars(target))
    ELSE IF target = <<>> THEN Len(chars(source))
    ELSE LET row == OrderForRow(source, target)
         IN  RollingRow(row.source, row.target)

Fault == [fault |-> TRUE, val |-> 0]
Value(n) == [fault |-> FALSE, val |-> n]

\* The remainders of self and other once the common suffix and the common
\* prefix are stripped; fault: a slice was taken off a char boundary.
StripCommon(self, other) ==
    LET end0 == ZipTakeWhileEq(Reverse(self), Reverse(other))
        end  == AlignSuffix(self, end0)
    IN  IF ~SliceOk(self, 0, Len(self) - end) \/ ~SliceOk(other, 0, Len(other) - end)
        THEN [fault |-> TRUE, source |-> <<>>, target |-> <<>>]
        ELSE
        LET source1 == Slice(self, 0, Len(self) - end)
            target1 == Slice(other, 0, Len(other) - end)
            start0  == ZipTakeWhileEq(source1, target1)
            start   == AlignPrefix(source1, start0)
        IN  IF ~SliceOk(source1, start, Len(source1))
               \/ ~SliceOk(target1, start, Len(target1))
            THEN [fault |-> TRUE, source |-> <<>>, target |-> <<>>]
            ELSE [fault |-> FALSE,
                  source |-> Slice(source1, start, Len(source1)),
                  target |-> Slice(target1, start, Len(target1))]

\* same_instance: self and other are one allocation (equal as_ptr()).
levenshtein_distance(self, other, same_instance) ==
    IF same_instance /\ Len(self) = Len(other) THEN Value(0)
    ELSE LET r == StripCommon(self, other)
         IN  IF r.fault THEN Fault
             ELSE Value(DistanceOfRemainders(r.source, r.target))

\* No rolling row was run: the call returned before it.
NoRow == [dp |-> FALSE, outer |-> <<>>, inner |-> <<>>, row |-> 0]

\* What the rolling row of the call runs over, if the call gets that far:
\* outer is the string the outer loop iterates, inner the one the inner
\* loop iterates, row the length of costs.
RowOfCall(self, other, same_instance) ==
    IF same_instance /\ Len(self) = Len(other) THEN NoRow
    ELSE LET r == StripCommon(self, other)
         IN  IF r.fault \/ r.source = <<>> \/ r.target = <<>> THEN NoRow
             ELSE LET row == OrderForRow(r.source, r.target)
                  IN  [dp |-> TRUE, outer |-> row.source, inner |-> row.target,
                       row |-> Len(InitialCosts(row.target))]

---------------------------------------------------------------------------
(* StrExt::hamming_distance.                                               *)

None == [some |-> FALSE, val |-> 0]
Some(n) == [some |-> TRUE, val |-> n]

\* A plausible slip: the count so far is returned when source runs out,
\* whatever target has left.
RECURSIVE HammingLoopPartial(_, _, _)
HammingLoopPartial(source, target, distance) ==
    IF source = <<>> THEN Some(distance)
    ELSE IF target = <<>> THEN None
    ELSE HammingLoopPartial(Tail(source), Tail(target),
                            distance + (IF Head(source) # Head(target) THEN 1 ELSE 0))

\* The loop, with what the two iterators have left.
RECURSIVE HammingLoop(_, _, _)
HammingLoop(source, target, distance) ==
    IF source = <<>>
    THEN (IF target # <<>> THEN None ELSE Some(distance))
    ELSE IF target = <<>> THEN None
    ELSE HammingLoop(Tail(source), Tail(target),
                     distance + (IF Head(source) # Head(target) THEN 1 ELSE 0))

hamming_distance(self, other) == HammingLoop(chars(self), chars(other), 0)

---------------------------------------------------------------------------
(* StrExt::longest_common_substring.                                       *)
(* The result is the slice self[start..end]; the initial "" is start =     *)
(* end = 0.  fault: end - start underflowed (a panic in a build with       *)
(* overflow checks; without them the wrapped difference passes the test    *)
(* and &self[start..end] panics with start > end), or the slice was taken  *)
(* off a char boundary.                                                    *)

NoMatch == [fault |-> FALSE, start |-> 0, end |-> 0]

\* What a candidate run of len bytes at ia does to the best so far.
Candidate(self, ia, len, best) ==
    IF len > best.end - best.start
    THEN LET start == next_char_boundary(self, ia)
             end   == previous_char_boundary(self, ia + len)
         IN  IF end < start THEN [best EXCEPT !.fault = TRUE]
             ELSE IF end - start > best.end - best.start
             THEN (IF SliceOk(self, start, end)
                   THEN [fault |-> FALSE, start |-> start, end |-> end]
                   ELSE [best EXCEPT !.fault = TRUE])
             ELSE best
    ELSE best

RECURSIVE LcsInner(_, _, _, _, _)
LcsInner(self, other, ia, ib, best) ==
    IF best.fault \/ ib >= Len(other) THEN best
    ELSE IF Len(other) - ib < best.end - best.start THEN best
    ELSE LET len == ZipTakeWhileEq(Slice(self, ia, Len(self)),
                                   Slice(other, ib, Len(other)))
         IN  LcsInner(self, other, ia, ib + 1, Candidate(self, ia, len, best))

RECURSIVE LcsOuter(_, _, _, _)
LcsOuter(self, other, ia, best) ==
    IF best.fault \/ ia >= Len(self) THEN best
    ELSE IF Len(self) - ia < best.end - best.start THEN best
    ELSE LcsOuter(self, other, ia + 1, LcsInner(self, other, ia, 0, best))

longest_common_substring(self, other) == LcsOuter(self, other, 0, NoMatch)

---------------------------------------------------------------------------
(* StrExt::char_frequencies and the two maps it can fill.  A BTreeMap is    *)
(* the sequence of its entries <<key, count>> in key order, a HashMap the   *)
(* set of its entries.                                                      *)

\* A plausible slip: insert(key, 1) where the entry is meant to be modified,
\* so a count never passes 1.
RECURSIVE BTreeIncrOverwrites(_, _)
BTreeIncrOverwrites(map, key) ==
    IF map = <<>> THEN << <<key, 1>> >>
    ELSE IF Head(map)[1] = key THEN << <<key, 1>> >> \o Tail(map)
    ELSE IF Head(map)[1] > key THEN << <<key, 1>> >> \o map
    ELSE <<Head(map)>> \o BTreeIncrOverwrites(Tail(map), key)

\* impl HzMap for BTreeMap<char, usize>: incr
RECURSIVE BTreeIncr(_, _)
BTreeIncr(map, key) ==
    IF map = <<>> THEN << <<key, 1>> >>
    ELSE IF Head(map)[1] = key THEN << <<key, Head(map)[2] + 1>> >> \o Tail(map)
    ELSE IF Head(map)[1] > key THEN << <<key, 1>> >> \o map
    ELSE <<Head(map)>> \o BTreeIncr(Tail(map), key)

\* impl HzMap for HashMap<char, usize>: incr
HashIncr(map, key) ==
    IF \E e \in map : e[1] = key
    THEN {IF e[1] = key THEN <<key, e[2] + 1>> ELSE e : e \in map}
    ELSE map \cup {<<key, 1>>}

\* self.chars().for_each(|c| map.incr(c)) on a BTreeMap, from the k-th code
\* point on.
RECURSIVE BTreeForEach(_, _, _)
BTreeForEach(cs, k, map) ==
    IF k > Len(cs) THEN map ELSE BTreeForEach(cs, k + 1, BTreeIncr(map, cs[k]))

\* The same on a HashMap.
RECURSIVE HashForEach(_, _, _)
HashForEach(cs, k, map) ==
    IF k > Len(cs) THEN map ELSE HashForEach(cs, k + 1, HashIncr(map, cs[k]))

\* char_frequencies::<BTreeMap<char, usize>>
char_frequencies_BTreeMap(s) == BTreeForEach(chars(s), 1, <<>>)

\* char_frequencies::<HashMap<char, usize>>
char_frequencies_HashMap(s) == HashForEach(chars(s), 1, {})

---------------------------------------------------------------------------
(* Vec<u8> and String primitives the in-place operations are built from.   *)

Max(x, y) == IF x > y THEN x ELSE y

\* Vec::set_len after Vec::reserve: the new positions hold nothing yet.
set_len(bytes, new_len) ==
    bytes \o [k \in 1..(new_len - Len(bytes)) |-> Uninit]

\* [u8]::copy_within(from..to, dest): a memmove inside bytes.
copy_within(bytes, from, to, dest) ==
    [k \in 1..Len(bytes) |->
        IF k - 1 >= dest /\ k - 1 < dest + (to - from)
        THEN bytes[(k - 1) - dest + from + 1]
        ELSE bytes[k]]

\* bytes[at..at + src.len()].copy_from_slice(src)
copy_from_slice(bytes, at, src) ==
    [k \in 1..Len(bytes) |->
        IF k - 1 >= at /\ k - 1 < at + Len(src) THEN src[k - at] ELSE bytes[k]]

\* A plausible slip: the range ends one step early and the last copy of fill
\* is never written.
RECURSIVE StampLoopShort(_, _, _, _, _)
StampLoopShort(bytes, i, hi, step, fill) ==
    IF i + step >= hi THEN bytes
    ELSE StampLoopShort(copy_from_slice(bytes, i, fill), i + step, hi, step, fill)

\* for i in (i..hi).step_by(step) { bytes[i..i + fill.len()].copy_from_slice(fill) }
RECURSIVE StampLoop(_, _, _, _, _)
StampLoop(bytes, i, hi, step, fill) ==
    IF i >= hi THEN bytes
    ELSE StampLoop(copy_from_slice(bytes, i, fill), i + step, hi, step, fill)

\* for _ in 0..times { string.push_str(fill) }
RECURSIVE PushTimes(_, _, _)
PushTimes(string, fill, times) ==
    IF times = 0 THEN string ELSE PushTimes(string \o fill, fill, times - 1)

\* String::insert_str(index, string), index a char boundary.
insert_str(s, index, string) ==
    Slice(s, 0, index) \o string \o Slice(s, index, Len(s))

\* String::replace_range(from..to, with), both ends char boundaries.
replace_range(s, from, to, with) ==
    Slice(s, 0, from) \o with \o Slice(s, to, Len(s))

\* str::find(pat): the byte offset of the first match, -1 for None.
Find(s, pat) ==
    LET hits == {i \in 0..(Len(s) - Len(pat)) : Slice(s, i, i + Len(pat)) = pat}
    IN  IF hits = {} THEN -1 ELSE CHOOSE i \in hits : \A j \in hits : i <= j

\* char::is_whitespace: the code points with the White_Space property.
is_whitespace(c) ==
    \/ c >= 9 /\ c <= 13
    \/ c \in {32, 133, 160, 5760, 8232, 8233, 8239, 8287, 12288}
    \/ c >= 8192 /\ c <= 8202

\* The byte offset at which str::trim_start's result starts.
RECURSIVE TrimStartOffset(_, _)
TrimStartOffset(s, i) ==
    IF i < Len(s) /\ is_whitespace(DecodeAt(s, i))
    THEN TrimStartOffset(s, i + Utf8Width(s[i + 1]))
    ELSE i

\* The byte offset at which str::trim_end's result ends, scanning back from i.
RECURSIVE TrimEndOffset(_, _)
TrimEndOffset(s, i) ==
    IF i = 0 THEN 0
    ELSE LET p == previous_char_boundary(s, i - 1)
         IN  IF is_whitespace(DecodeAt(s, p)) THEN TrimEndOffset(s, p) ELSE i

---------------------------------------------------------------------------
(* impl StringExt for String.  Each operation maps the buffer's bytes to    *)
(* the bytes it leaves, the code path it took and the capacity requests it  *)
(* made, in order.                                                          *)

\* A call that asked nothing of the allocator.
Done(bytes, path) == [bytes |-> bytes, path |-> path, mem |-> <<>>]

\* reserve(additional) on a buffer of len bytes, asked for by the code or by
\* push_str, insert_str or replace_range on its behalf.
Reserve(len, additional) == [kind |-> "reserve", len |-> len, additional |-> additional]

\* A call that made the capacity requests mem.
Asked(bytes, path, mem) == [bytes |-> bytes, path |-> path, mem |-> mem]

\* Vec::reserve: nothing when the spare capacity suffices; otherwise the
\* amortized growth of RawVec (double, at least what is needed, at least 8
\* bytes).  A "fresh" request is a new allocation of exactly len bytes.
AfterRequest(capacity, request) ==
    IF request.kind = "fresh" THEN request.len
    ELSE IF capacity - request.len >= request.additional THEN capacity
    ELSE Max(Max(capacity * 2, request.len + request.additional), 8)

\* Whether the request makes the allocation grow.
Grows(capacity, request) ==
    request.kind = "reserve" /\ capacity - request.len < request.additional

\* How many of the requests mem, made in order from capacity on, make the
\* allocation grow.
RECURSIVE Growths(_, _)
Growths(capacity, mem) ==
    IF mem = <<>> THEN 0
    ELSE (IF Grows(capacity, Head(mem)) THEN 1 ELSE 0)
             + Growths(AfterRequest(capacity, Head(mem)), Tail(mem))

RECURSIVE AfterRequests(_, _)
AfterRequests(capacity, mem) ==
    IF mem = <<>> THEN capacity
    ELSE AfterRequests(AfterRequest(capacity, Head(mem)), Tail(mem))

\* clear(), then push_str(text).
set(s, text) == Asked(<<>> \o text, "set", <<Reserve(0, Len(text))>>)

trim_start_in_place(s) ==
    LET start == TrimStartOffset(s, 0)
        len   == Len(s) - start
    IN  Done(Slice(copy_within(s, start, start + len, 0), 0, len),
             IF start = 0 THEN "kept" ELSE "trimmed")

trim_end_in_place(s) ==
    LET len == TrimEndOffset(s, Len(s))
    IN  Done(Slice(s, 0, len), IF len = Len(s) THEN "kept" ELSE "trimmed")

\* A plausible slip: trim_start() where trim() is meant, so the trailing
\* whitespace stays.
TrimInPlaceLeavesEnd(s) == trim_start_in_place(s)

\* A plausible slip: the buffer is replaced by a new String of the trimmed
\* text (*self = self.trim().to_string()), allocated at its exact length.
TrimInPlaceByRebuilding(s) ==
    LET start == IF TrimStartOffset(s, 0) = Len(s) THEN 0 ELSE TrimStartOffset(s, 0)
        end   == Max(start, TrimEndOffset(s, Len(s)))
    IN  Asked(Slice(s, start, end), IF end - start = Len(s) THEN "kept" ELSE "trimmed",
              <<[kind |-> "fresh", len |-> end - start, additional |-> 0]>>)

\* str::trim of an all-whitespace string is the empty slice at offset 0.
trim_in_place(s) ==
    LET start == IF TrimStartOffset(s, 0) = Len(s) THEN 0 ELSE TrimStartOffset(s, 0)
        end   == Max(start, TrimEndOffset(s, Len(s)))
        len   == end - start
    IN  Done(Slice(copy_within(s, start, start + len, 0), 0, len),
             IF len = Len(s) THEN "kept" ELSE "trimmed")

\* A plausible slip: the old content is moved by one fill, not by all of them.
FillStartMoveByOneFill(s, fill, times) ==
    IF fill = <<>> \/ times = 0 THEN Done(s, "noop")
    ELSE LET bytes_len  == Len(s)
             additional == Len(fill) * times
             grown      == set_len(s, bytes_len + additional)
             moved      == copy_within(grown, 0, bytes_len, Len(fill))
         IN  Done(StampLoop(moved, 0, Len(fill) * times, Max(Len(fill), 1), fill),
                  "splice")

fill_start_in_place(s, fill, times) ==
    IF fill = <<>> \/ times = 0 THEN Done(s, "noop")
    ELSE LET bytes_len  == Len(s)
             additional == Len(fill) * times
             grown      == set_len(s, bytes_len + additional)
             moved      == copy_within(grown, 0, bytes_len, additional)
         IN  Asked(StampLoop(moved, 0, Len(fill) * times, Max(Len(fill), 1), fill),
                   "splice", <<Reserve(bytes_len, additional)>>)

\* The reserve, then the one each push_str makes for its own bytes.
fill_end_in_place(s, fill, times) ==
    IF fill = <<>> \/ times = 0 THEN Done(s, "noop")
    ELSE Asked(PushTimes(s, fill, times), "splice",
               <<Reserve(Len(s), Len(fill) * times)>>
                   \o [k \in 1..times |-> Reserve(Len(s) + (k - 1) * Len(fill), Len(fill))])

\* A plausible slip: the content is moved by the whole addition, as in
\* fill_start_in_place, not by half of it.
CenterMovedByWholeAddition(s, fill, times) ==
    IF fill = <<>> \/ times = 0 THEN Done(s, "noop")
    ELSE LET bytes_len  == Len(s)
             additional == Len(fill) * times * 2
             grown      == set_len(s, bytes_len + additional)
             moved      == copy_within(grown, 0, bytes_len, additional)
             before     == StampLoop(moved, 0, times * Len(fill), Len(fill), fill)
         IN  Done(StampLoop(before, bytes_len + additional \div 2,
                            bytes_len + additional, Max(Len(fill), 1), fill),
                  "splice")

\* A plausible slip: room is reserved for the front padding, and again for
\* the back padding once the front is in.
CenterReservesEachSideApart(s, fill, times) ==
    IF fill = <<>> \/ times = 0 THEN Done(s, "noop")
    ELSE LET bytes_len  == Len(s)
             additional == Len(fill) * times * 2
             grown      == set_len(s, bytes_len + additional)
             moved      == copy_within(grown, 0, bytes_len, additional \div 2)
             before     == StampLoop(moved, 0, times * Len(fill), Len(fill), fill)
         IN  Asked(StampLoop(before, bytes_len + additional \div 2,
                             bytes_len + additional, Max(Len(fill), 1), fill),
                   "splice",
                   <<Reserve(bytes_len, additional \div 2),
                     Reserve(bytes_len + additional \div 2, additional \div 2)>>)

center_in_place(s, fill, times) ==
    IF fill = <<>> \/ times = 0 THEN Done(s, "noop")
    ELSE LET bytes_len  == Len(s)
             additional == Len(fill) * times * 2
             grown      == set_len(s, bytes_len + additional)
             moved      == copy_within(grown, 0, bytes_len, additional \div 2)
             before     == StampLoop(moved, 0, times * Len(fill), Len(fill), fill)
         IN  Asked(StampLoop(before, bytes_len + additional \div 2,
                             bytes_len + additional, Max(Len(fill), 1), fill),
                   "splice", <<Reserve(bytes_len, additional)>>)

\* A plausible slip: the content is moved by the length of the other fill.
EncloseMovedByEndFill(s, fill_start, fill_end) ==
    IF fill_start = <<>> /\ fill_end = <<>> THEN Done(s, "noop")
    ELSE LET bytes_len  == Len(s)
             additional == Len(fill_start) + Len(fill_end)
             grown      == set_len(s, bytes_len + additional)
             moved      == copy_within(grown, 0, bytes_len, Len(fill_end))
             front      == copy_from_slice(moved, 0, fill_start)
         IN  Done(copy_from_slice(front, Len(fill_start) + bytes_len, fill_end),
                  "splice")

enclose_in_place(s, fill_start, fill_end) ==
    IF fill_start = <<>> /\ fill_end = <<>> THEN Done(s, "noop")
    ELSE LET bytes_len  == Len(s)
             additional == Len(fill_start) + Len(fill_end)
             grown      == set_len(s, bytes_len + additional)
             moved      == copy_within(grown, 0, bytes_len, Len(fill_start))
             front      == copy_from_slice(moved, 0, fill_start)
         IN  Asked(copy_from_slice(front, Len(fill_start) + bytes_len, fill_end),
                   "splice", <<Reserve(bytes_len, additional)>>)

\* A plausible slip: the suffix is moved by one fill, not by count fills.
ShiftMoveByOneFill(s, index, count, fill) ==
    LET bytes_len  == Len(s)
        additional == count * Len(fill)
        grown      == set_len(s, bytes_len + additional)
        moved      == copy_within(grown, index, bytes_len, index + Len(fill))
    IN  StampLoop(moved, index, index + count * Len(fill), Len(fill), fill)

\* The count > 1 path of shift_in_place: grow, move the suffix, stamp.
ShiftMove(s, index, count, fill) ==
    LET bytes_len  == Len(s)
        additional == count * Len(fill)
        grown      == set_len(s, bytes_len + additional)
        moved      == copy_within(grown, index, bytes_len, index + count * Len(fill))
    IN  StampLoop(moved, index, index + count * Len(fill), Len(fill), fill)

\* The two assertions that open shift and shift_in_place.
ShiftPrecondition(s, index) == is_char_boundary(s, index) /\ index <= Len(s)

\* A plausible slip: the no-op test comes before the two assertions.
ShiftInPlaceNoopFirst(s, index, count, fill) ==
    IF count = 0 \/ fill = <<>> THEN Done(s, "noop")
    ELSE IF ~ShiftPrecondition(s, index) THEN Done(s, "fault")
    ELSE IF count = 1 THEN Done(insert_str(s, index, fill), "insert")
    ELSE Done(ShiftMove(s, index, count, fill), "move")

shift_in_place(s, index, count, fill) ==
    IF ~ShiftPrecondition(s, index) THEN Done(s, "fault")
    ELSE IF count = 0 \/ fill = <<>> THEN Done(s, "noop")
    ELSE IF count = 1
    THEN Asked(insert_str(s, index, fill), "insert", <<Reserve(Len(s), Len(fill))>>)
    ELSE Asked(ShiftMove(s, index, count, fill), "move",
               <<Reserve(Len(s), count * Len(fill))>>)

\* A plausible slip: tabsize spaces are inserted after the overwritten tab.
SaturatingPredForgotten(n) == n

\* tabsize.saturating_sub(1)
SaturatingPred(n) == IF n = 0 THEN 0 ELSE n - 1

\* The loop of expand_tabs_in_place, from i on; found: a tab was expanded;
\* mem: the capacity requests of the shift_in_place calls so far.
RECURSIVE ExpandLoop(_, _, _, _, _)
ExpandLoop(s, i, tabsize, found, mem) ==
    IF ~(i < Len(s)) THEN Asked(s, IF found THEN "expanded" ELSE "scanned", mem)
    ELSE IF ~is_char_boundary(s, i) THEN Asked(s, "fault", mem)
    ELSE IF s[i + 1] = Tab[1]
    THEN LET spaced  == copy_from_slice(s, i, Space)
             shifted == shift_in_place(spaced, i, SaturatingPred(tabsize), Space)
         IN  IF shifted.path = "fault" THEN Asked(shifted.bytes, "fault", mem)
             ELSE ExpandLoop(shifted.bytes, i + tabsize, tabsize, TRUE,
                             mem \o shifted.mem)
    ELSE ExpandLoop(s, next_char_boundary(s, i + 1), tabsize, found, mem)

\* A plausible slip: a tabsize of 0 is not turned away, and every tab
\* becomes the one space written over it.
ExpandTabsZeroNotTurnedAway(s, tabsize) ==
    IF s = <<>> THEN Done(s, "noop")
    ELSE ExpandLoop(s, 0, tabsize, FALSE, <<>>)

expand_tabs_in_place(s, tabsize) ==
    IF tabsize = 0 \/ s = <<>> THEN Done(s, "noop")
    ELSE ExpandLoop(s, 0, tabsize, FALSE, <<>>)

\* A plausible slip: an if let where the while let is, so only the first
\* occurrence is replaced.
ReplaceLoopOnce(s, offset, from, to, found, mem) ==
    LET i == Find(Slice(s, offset, Len(s)), from)
    IN  IF i = -1 THEN Asked(s, "scanned", mem)
        ELSE Asked(replace_range(s, offset + i, offset + i + Len(from), to),
                   "replaced", mem)

\* The loop of replace_in_place, from offset on; mem: what the
\* replace_range calls so far asked for (each the bytes it adds, if any).
RECURSIVE ReplaceLoop(_, _, _, _, _, _)
ReplaceLoop(s, offset, from, to, found, mem) ==
    LET i == Find(Slice(s, offset, Len(s)), from)
    IN  IF i = -1 THEN Asked(s, IF found THEN "replaced" ELSE "scanned", mem)
        ELSE ReplaceLoop(replace_range(s, offset + i, offset + i + Len(from), to),
                         offset + i + Len(to), from, to, TRUE,
                         IF Len(to) > Len(from)
                         THEN mem \o <<Reserve(Len(s), Len(to) - Len(from))>>
                         ELSE mem)

replace_in_place(s, from, to) ==
    IF s = <<>> \/ from = <<>> THEN Done(s, "noop")
    ELSE ReplaceLoop(s, 0, from, to, FALSE, <<>>)

\* StrExt::shift: the allocating variant; bytes is the String it returns.
shift(s, index, count, fill) ==
    IF ~ShiftPrecondition(s, index) THEN Done(<<>>, "fault")
    ELSE IF count = 0 \/ fill = <<>> THEN Done(s, "noop")
    ELSE Done(PushTimes(Slice(s, 0, index), fill, count) \o Slice(s, index, Len(s)),
              "built")

\* The other allocating variants of impl StrExt: each builds its String with
\* push_str from an empty one.
fill_start(s, fill, times) == Done(PushTimes(<<>>, fill, times) \o s, "built")

fill_end(s, fill, times) == Done(PushTimes(<<>> \o s, fill, times), "built")

center(s, fill, times) ==
    Done(PushTimes(PushTimes(<<>>, fill, times) \o s, fill, times), "built")

enclose(s, fill_start_, fill_end_) == Done(fill_start_ \o s \o fill_end_, "built")

\* A plausible slip: the closure for a tab width of 8 pushes the literal of
\* the closure for 4.
ExpandEightPushesFour(string, tabsize) ==
    CASE tabsize = 2 -> string \o <<32, 32>>
      [] tabsize = 4 -> string \o <<32, 32, 32, 32>>
      [] tabsize = 8 -> string \o <<32, 32, 32, 32>>
      [] OTHER       -> PushTimes(string, Space, tabsize)

\* The closure expand_tabs picks for tabsize, applied to string: a literal
\* of 2, 4 or 8 spaces, or tabsize pushes of one space.
Expand(string, tabsize) ==
    CASE tabsize = 2 -> string \o <<32, 32>>
      [] tabsize = 4 -> string \o <<32, 32, 32, 32>>
      [] tabsize = 8 -> string \o <<32, 32, 32, 32, 32, 32, 32, 32>>
      [] OTHER       -> PushTimes(string, Space, tabsize)

\* while let Some(i) = source.find('\t') { ... } string.push_str(source)
RECURSIVE ExpandTabsLoop(_, _, _)
ExpandTabsLoop(string, source, tabsize) ==
    LET i == Find(source, Tab)
    IN  IF i = -1 THEN string \o source
        ELSE ExpandTabsLoop(Expand(string \o Slice(source, 0, i), tabsize),
                            Slice(source, i + 1, Len(source)), tabsize)

expand_tabs(s, tabsize) ==
    IF tabsize = 0 \/ s = <<>> THEN Done(s, "noop")
    ELSE Done(ExpandTabsLoop(<<>>, s, tabsize), "built")

---------------------------------------------------------------------------
(* Inputs of the in-place calls.                                           *)

BufAlphabet == {LatinA, Tab, Space, EAcute}

\* The buffers a call may find: every string of up to MaxBufChars code points.
StartBuffers == StringsUpTo(BufAlphabet, MaxBufChars)

\* The buffers of the single calls: those, and the ones with two-byte
\* whitespace in them.
CallBuffers == StartBuffers \cup StringsUpTo({LatinA, Space, Nbsp}, MaxBufChars)

\* Fills of the chained calls, and of the single calls.
Fills == {<<>>, Space, EAcute}
CallFills == Fills \cup {Euro, LatinA \o EAcute}

Times == 0..MaxTimes
TabSizes == 0..(MaxTimes + 1)

\* Fills made of whitespace only: one-byte and two-byte code points, and a
\* fill of two code points.
WhitespaceFills == {Space, Tab, Nbsp, Space \o Tab}

\* The patterns replace_in_place is called with: one that can overlap itself
\* (aa in aaa), one- and two-byte code points, two code points, none.
ReplaceFroms == {<<>>, LatinA, LatinA \o LatinA, EAcute, LatinA \o EAcute}

\* The replacements: those (some contain a pattern), a space, and a pattern
\* twice.
ReplaceTos == ReplaceFroms \cup {Space, LatinA \o EAcute \o LatinA \o EAcute}

\* The tab widths of the single calls: those, and the two larger widths
\* expand_tabs has a closure of its own for.
CallTabSizes == TabSizes \cup {4, 8}

\* Indices handed to shift: every offset up to one past the length.
Indices(s) == 0..(Len(s) + 1)

\* The spare capacity of a buffer that has some: room for one short fill.
SpareCapacity == 2

\* out before any comparator call.
NoCall == [op |-> "none", fault |-> FALSE, some |-> FALSE, val |-> 0,
           start |-> 0, end |-> 0, index |-> 0, row |-> NoRow]

\* last before any call.  old, cap, index, count, fill, fill2: the buffer
\* and the capacity the call found, and its arguments; ret: the String an
\* allocating call returned; btree, hash: the map char_frequencies returned;
\* mem: the capacity requests the call made, in order.
NoCallYet == [op |-> "none", path |-> "none", old |-> <<>>, cap |-> 0, index |-> 0,
              count |-> 0, fill |-> <<>>, fill2 |-> <<>>, ret |-> <<>>,
              btree |-> <<>>, hash |-> {}, mem |-> <<>>]

---------------------------------------------------------------------------
(* Spec: a String and any sequence of in-place calls on it.  A call that    *)
(* would grow the buffer past MaxLen bytes is left out.                     *)

Init ==
    /\ buf \in {s \in StartBuffers : Len(s) <= MaxLen}
    /\ cap = Len(buf)
    /\ last = NoCallYet
    /\ a = <<>>
    /\ b = <<>>
    /\ same = FALSE
    /\ out = NoCall

Step(op, r) ==
    /\ Len(r.bytes) <= MaxLen
    /\ buf' = r.bytes
    /\ cap' = AfterRequests(cap, r.mem)
    /\ last' = [NoCallYet EXCEPT !.op = op, !.path = r.path]
    /\ UNCHANGED <<a, b, same, out>>

Set == \E text \in Fills : Step("set", set(buf, text))

TrimStartInPlace == Step("trim_start_in_place", trim_start_in_place(buf))

TrimEndInPlace == Step("trim_end_in_place", trim_end_in_place(buf))

TrimInPlace == Step("trim_in_place", trim_in_place(buf))

FillStartInPlace ==
    \E fill \in Fills, times \in Times :
        Step("fill_start_in_place", fill_start_in_place(buf, fill, times))

FillEndInPlace ==
    \E fill \in Fills, times \in Times :
        Step("fill_end_in_place", fill_end_in_place(buf, fill, times))

CenterInPlace ==
    \E fill \in Fills, times \in Times :
        Step("center_in_place", center_in_place(buf, fill, times))

EncloseInPlace ==
    \E fill_start_ \in Fills, fill_end_ \in Fills :
        Step("enclose_in_place", enclose_in_place(buf, fill_start_, fill_end_))

ExpandTabsInPlace ==
    \E tabsize \in TabSizes :
        Step("expand_tabs_in_place", expand_tabs_in_place(buf, tabsize))

ShiftInPlace ==
    \E index \in Indices(buf), count \in Times, fill \in Fills :
        Step("shift_in_place", shift_in_place(buf, index, count, fill))

ReplaceInPlace ==
    \E from \in Fills, to \in Fills :
        Step("replace_in_place", replace_in_place(buf, from, to))

Next ==
    \/ Set
    \/ TrimStartInPlace
    \/ TrimEndInPlace
    \/ TrimInPlace
    \/ FillStartInPlace
    \/ FillEndInPlace
    \/ CenterInPlace
    \/ EncloseInPlace
    \/ ExpandTabsInPlace
    \/ ShiftInPlace
    \/ ReplaceInPlace

Spec == Init /\ [][Next]_vars

---------------------------------------------------------------------------
(* SpecCall: one call on a buffer drawn at the start, with the buffer it    *)
(* found and its arguments kept in last.                                    *)

Call(op, r, index, count, fill, fill2) ==
    /\ last.op = "none"
    /\ buf' = r.bytes
    /\ cap' = AfterRequests(cap, r.mem)
    /\ last' = [NoCallYet EXCEPT !.op = op, !.path = r.path, !.old = buf,
                                 !.cap = cap, !.index = index, !.count = count,
                                 !.fill = fill, !.fill2 = fill2, !.mem = r.mem]
    /\ UNCHANGED <<a, b, same, out>>

\* A call of an allocating StrExt method: self is left as it is.
CallStr(op, r, index, count, fill, fill2) ==
    /\ last.op = "none"
    /\ last' = [NoCallYet EXCEPT !.op = op, !.path = r.path, !.old = buf,
                                 !.cap = cap, !.index = index, !.count = count,
                                 !.fill = fill, !.fill2 = fill2, !.ret = r.bytes]
    /\ UNCHANGED <<buf, cap, a, b, same, out>>

CallTrimStartInPlace ==
    Call("trim_start_in_place", trim_start_in_place(buf), 0, 0, <<>>, <<>>)

CallTrimEndInPlace ==
    Call("trim_end_in_place", trim_end_in_place(buf), 0, 0, <<>>, <<>>)

CallTrimInPlace ==
    Call("trim_in_place", trim_in_place(buf), 0, 0, <<>>, <<>>)

CallFillStartInPlace ==
    \E fill \in CallFills, times \in Times :
        Call("fill_start_in_place", fill_start_in_place(buf, fill, times),
             0, times, fill, <<>>)

CallFillEndInPlace ==
    \E fill \in CallFills, times \in Times :
        Call("fill_end_in_place", fill_end_in_place(buf, fill, times),
             0, times, fill, <<>>)

CallCenterInPlace ==
    \E fill \in CallFills, times \in Times :
        Call("center_in_place", center_in_place(buf, fill, times),
             0, times, fill, <<>>)

CallEncloseInPlace ==
    \E fill_start_ \in CallFills, fill_end_ \in CallFills :
        Call("enclose_in_place", enclose_in_place(buf, fill_start_, fill_end_),
             0, 0, fill_start_, fill_end_)

CallExpandTabsInPlace ==
    \E tabsize \in CallTabSizes :
        Call("expand_tabs_in_place", expand_tabs_in_place(buf, tabsize),
             0, tabsize, <<>>, <<>>)

CallShiftInPlace ==
    \E index \in Indices(buf), count \in Times, fill \in CallFills :
        Call("shift_in_place", shift_in_place(buf, index, count, fill),
             index, count, fill, <<>>)

CallReplaceInPlace ==
    \E from \in ReplaceFroms, to \in ReplaceTos :
        Call("replace_in_place", replace_in_place(buf, from, to), 0, 0, from, to)

CallShift ==
    \E index \in Indices(buf), count \in Times, fill \in CallFills :
        CallStr("shift", shift(buf, index, count, fill), index, count, fill, <<>>)

CallFillStart ==
    \E fill \in CallFills, times \in Times :
        CallStr("fill_start", fill_start(buf, fill, times), 0, times, fill, <<>>)

CallFillEnd ==
    \E fill \in CallFills, times \in Times :
        CallStr("fill_end", fill_end(buf, fill, times), 0, times, fill, <<>>)

CallCenter ==
    \E fill \in CallFills, times \in Times :
        CallStr("center", center(buf, fill, times), 0, times, fill, <<>>)

CallEnclose ==
    \E fill_start_ \in CallFills, fill_end_ \in CallFills :
        CallStr("enclose", enclose(buf, fill_start_, fill_end_),
                0, 0, fill_start_, fill_end_)

\* s.fill_end(fill, times).fill_start(fill, times), then trim_in_place on the
\* String that gives; the receiver is left as it is.
CallTrimOfPadded ==
    \E fill \in WhitespaceFills, times \in Times :
        LET padded == fill_start(fill_end(buf, fill, times).bytes, fill, times).bytes
        IN  CallStr("trim_of_padded", trim_in_place(padded), 0, times, fill, <<>>)

CallCharFrequenciesBTreeMap ==
    /\ last.op = "none"
    /\ last' = [NoCallYet EXCEPT !.op = "char_frequencies::<BTreeMap>", !.old = buf,
                                 !.cap = cap,
                                 !.btree = char_frequencies_BTreeMap(buf)]
    /\ UNCHANGED <<buf, cap, a, b, same, out>>

CallCharFrequenciesHashMap ==
    /\ last.op = "none"
    /\ last' = [NoCallYet EXCEPT !.op = "char_frequencies::<HashMap>", !.old = buf,
                                 !.cap = cap,
                                 !.hash = char_frequencies_HashMap(buf)]
    /\ UNCHANGED <<buf, cap, a, b, same, out>>

CallExpandTabs ==
    \E tabsize \in CallTabSizes :
        CallStr("expand_tabs", expand_tabs(buf, tabsize), 0, tabsize, <<>>, <<>>)

NextCall ==
    \/ CallTrimStartInPlace
    \/ CallTrimEndInPlace
    \/ CallTrimInPlace
    \/ CallFillStartInPlace
    \/ CallFillEndInPlace
    \/ CallCenterInPlace
    \/ CallEncloseInPlace
    \/ CallExpandTabsInPlace
    \/ CallShiftInPlace
    \/ CallReplaceInPlace
    \/ CallShift
    \/ CallFillStart
    \/ CallFillEnd
    \/ CallCenter
    \/ CallEnclose
    \/ CallExpandTabs
    \/ CallTrimOfPadded
    \/ CallCharFrequenciesBTreeMap
    \/ CallCharFrequenciesHashMap

\* The capacity is exact (String::from) or has room to spare.
InitCall ==
    /\ buf \in CallBuffers
    /\ cap \in {Len(buf), Len(buf) + SpareCapacity}
    /\ last = NoCallYet
    /\ a = <<>>
    /\ b = <<>>
    /\ same = FALSE
    /\ out = NoCall

SpecCall == InitCall /\ [][NextCall]_vars

---------------------------------------------------------------------------
(* SpecExpandTabs: one call of expand_tabs_in_place, one loop iteration at  *)
(* a time.  last.index is the scan index i, last.count the tab width, and   *)
(* last.path where the call is: "loop" at the head of the while loop,       *)
(* "returned" after it, "fault" when a slice or an assertion has panicked.  *)

\* A plausible slip: the scan moves on by one byte, not to the next boundary.
ExpandTabsScanOneByte(s, i) == i + 1

\* i = self.next_char_boundary(i + 1)
ExpandTabsScan(s, i) == next_char_boundary(s, i + 1)

\* The call is made: it returns at once for a tab width of 0 or an empty
\* buffer, and enters the loop with i = 0 otherwise.
ExpandTabsEnter ==
    /\ last.op = "none"
    /\ \E tabsize \in TabSizes :
           last' = [NoCallYet EXCEPT
                       !.op = "expand_tabs_in_place", !.old = buf, !.cap = cap,
                       !.count = tabsize, !.index = 0,
                       !.path = IF tabsize = 0 \/ buf = <<>> THEN "returned"
                                ELSE "loop"]
    /\ UNCHANGED <<buf, cap, a, b, same, out>>

\* One pass through the body of the while loop with the buffer s and the
\* scan index i: the buffer and the index it leaves, whether a slice or an
\* assertion panicked, and the capacity requests made.
ExpandTabsBody(s, i, tabsize) ==
    IF ~is_char_boundary(s, i)
    THEN [bytes |-> s, index |-> i, path |-> "fault", mem |-> <<>>]
    ELSE IF s[i + 1] = Tab[1]
    THEN LET spaced  == copy_from_slice(s, i, Space)
             shifted == shift_in_place(spaced, i, SaturatingPred(tabsize), Space)
         IN  IF shifted.path = "fault"
             THEN [bytes |-> shifted.bytes, index |-> i, path |-> "fault",
                   mem |-> <<>>]
             ELSE [bytes |-> shifted.bytes, index |-> i + tabsize, path |-> "loop",
                   mem |-> shifted.mem]
    ELSE [bytes |-> s, index |-> ExpandTabsScan(s, i), path |-> "loop", mem |-> <<>>]

ExpandTabsIteration ==
    /\ last.op = "expand_tabs_in_place"
    /\ last.path = "loop"
    /\ last.index < Len(buf)
    /\ buf' = ExpandTabsBody(buf, last.index, last.count).bytes
    /\ cap' = AfterRequests(cap, ExpandTabsBody(buf, last.index, last.count).mem)
    /\ last' = [last EXCEPT
                   !.index = ExpandTabsBody(buf, last.index, last.count).index,
                   !.path = ExpandTabsBody(buf, last.index, last.count).path,
                   !.mem = last.mem \o ExpandTabsBody(buf, last.index, last.count).mem]
    /\ UNCHANGED <<a, b, same, out>>

\* The loop condition i < self.len() fails and the call returns.
ExpandTabsReturn ==
    /\ last.op = "expand_tabs_in_place"
    /\ last.path = "loop"
    /\ ~(last.index < Len(buf))
    /\ last' = [last EXCEPT !.path = "returned"]
    /\ UNCHANGED <<buf, cap, a, b, same, out>>

NextExpandTabs ==
    \/ ExpandTabsEnter
    \/ ExpandTabsIteration
    \/ ExpandTabsReturn

\* The buffer the call finds: tabs, spaces, one- and two-byte code points,
\* at its exact capacity.
InitExpandTabs ==
    /\ buf \in StartBuffers
    /\ cap = Len(buf)
    /\ last = NoCallYet
    /\ a = <<>>
    /\ b = <<>>
    /\ same = FALSE
    /\ out = NoCall

\* The call runs on until it returns or panics.
SpecExpandTabs ==
    InitExpandTabs /\ [][NextExpandTabs]_vars /\ WF_vars(NextExpandTabs)

---------------------------------------------------------------------------
(* The comparator calls: a and b are drawn at the start, each action is    *)
(* one call on them and leaves its result in out.                          *)

CmpInputs == StringsUpTo(CmpAlphabet, MaxChars)

InitCmp ==
    /\ cap = 0
    /\ a \in CmpInputs
    /\ b \in CmpInputs
    /\ same \in IF a = b THEN BOOLEAN ELSE {FALSE}
    /\ out = NoCall
    /\ buf = <<>>
    /\ last = NoCallYet

LevenshteinDistance ==
    /\ out' = LET r == levenshtein_distance(a, b, same)
              IN  [NoCall EXCEPT !.op = "levenshtein_distance",
                                 !.fault = r.fault, !.val = r.val,
                                 !.row = RowOfCall(a, b, same)]
    /\ UNCHANGED <<buf, cap, last, a, b, same>>

HammingDistance ==
    /\ out' = LET r == hamming_distance(a, b)
              IN  [NoCall EXCEPT !.op = "hamming_distance",
                                 !.some = r.some, !.val = r.val]
    /\ UNCHANGED <<buf, cap, last, a, b, same>>

LongestCommonSubstring ==
    /\ out' = LET r == longest_common_substring(a, b)
              IN  [NoCall EXCEPT !.op = "longest_common_substring",
                                 !.fault = r.fault, !.start = r.start,
                                 !.end = r.end]
    /\ UNCHANGED <<buf, cap, last, a, b, same>>

\* The indices the boundary scanners are called with: those of a, and two
\* past its end.
CmpIndices == 0..(Len(a) + 2)

NextCharBoundary ==
    /\ \E index \in CmpIndices :
           out' = [NoCall EXCEPT !.op = "next_char_boundary", !.index = index,
                                 !.val = next_char_boundary(a, index)]
    /\ UNCHANGED <<buf, cap, last, a, b, same>>

PreviousCharBoundary ==
    /\ \E index \in CmpIndices :
           out' = [NoCall EXCEPT !.op = "previous_char_boundary", !.index = index,
                                 !.val = previous_char_boundary(a, index)]
    /\ UNCHANGED <<buf, cap, last, a, b, same>>

NextCmp ==
    \/ LevenshteinDistance
    \/ HammingDistance
    \/ LongestCommonSubstring
    \/ NextCharBoundary
    \/ PreviousCharBoundary

SpecCmp == InitCmp /\ [][NextCmp]_vars

---------------------------------------------------------------------------
(* Reference notions the comparator claims are stated with.                *)

\* The char boundaries of s.
Boundaries(s) == {i \in 0..Len(s) : is_char_boundary(s, i)}

\* Whether the bytes x occur contiguously in y.
OccursIn(x, y) ==
    \E t \in 0..(Len(y) - Len(x)) : Slice(y, t, t + Len(x)) = x

\* The common char-aligned substrings of x and y, as slices <<s, e>> of x
\* whose bytes occur in y between two char boundaries of y.
CommonSubstrings(x, y) ==
    {se \in Boundaries(x) \X Boundaries(x) :
        /\ se[1] <= se[2]
        /\ \E t \in Boundaries(y) :
              /\ t + (se[2] - se[1]) \in Boundaries(y)
              /\ Slice(y, t, t + (se[2] - se[1])) = Slice(x, se[1], se[2])}

\* The standard edit distance of two sequences: insert, delete and
\* substitute cost 1 each.
RECURSIVE EditDistance(_, _)
EditDistance(x, y) ==
    IF x = <<>> THEN Len(y)
    ELSE IF y = <<>> THEN Len(x)
    ELSE Min(Min(EditDistance(Tail(x), y) + 1, EditDistance(x, Tail(y)) + 1),
             EditDistance(Tail(x), Tail(y)) + (IF Head(x) = Head(y) THEN 0 ELSE 1))

\* The raw common byte suffix of a and b, before re-alignment.
RawCommonSuffix == ZipTakeWhileEq(Reverse(a), Reverse(b))

---------------------------------------------------------------------------
(* Claims about the comparators, checked under SpecCmp.                    *)

\* C1: longest_common_substring(a, b) returns, for every pair of valid
\* UTF-8 strings, a slice a[s..e] with s and e char boundaries of a, whose
\* bytes occur contiguously in b, such that no common char-aligned substring
\* is longer in bytes and s is the smallest start among those of that
\* maximal length.
C1_LcsIsLeftmostLongest ==
    out.op = "longest_common_substring" =>
        /\ ~out.fault
        /\ out.start \in Boundaries(a) /\ out.end \in Boundaries(a)
        /\ out.start <= out.end
        /\ OccursIn(Slice(a, out.start, out.end), b)
        /\ \A se \in CommonSubstrings(a, b) :
              /\ se[2] - se[1] <= out.end - out.start
              /\ (se[2] - se[1] = out.end - out.start /\ se[2] > se[1])
                    => out.start <= se[1]

\* C2: when a and b share no common substring of at least one code point
\* (they may share single bytes of a code point), longest_common_substring
\* returns the empty string.
C2_LcsEmptyWhenNothingShared ==
    (/\ out.op = "longest_common_substring"
     /\ \A se \in CommonSubstrings(a, b) : se[1] = se[2])
        => (~out.fault /\ out.start = out.end)

C6_WitnessNone ==
    /\ out.op = "hamming_distance"
    /\ ~out.some
    /\ Len(chars(a)) < Len(chars(b))
    /\ a # <<>>

C24_ShorterRemainderIsOuter ==
    (out.op = "levenshtein_distance" /\ out.row.dp) =>
        /\ Len(out.row.outer) <= Len(out.row.inner)
        /\ out.row.row = Len(chars(out.row.inner)) + 1

\* C24, amended: once the two remainders are ordered for the rolling row,
\* the one that is no shorter in bytes than the other is iterated by the
\* outer loop (self's remainder on a tie), and the other, the one that is no
\* longer, by the inner loop; the scratch row has one cell more than that
\* inner remainder has code points.
C24_LongerRemainderIsOuter ==
    (out.op = "levenshtein_distance" /\ out.row.dp) =>
        LET r == StripCommon(a, b)
        IN  /\ Len(out.row.outer) >= Len(out.row.inner)
            /\ out.row.row = Len(chars(out.row.inner)) + 1
            /\ \/ out.row.outer = r.source /\ out.row.inner = r.target
               \/ out.row.outer = r.target /\ out.row.inner = r.source
            /\ Len(r.source) = Len(r.target) => out.row.outer = r.source
            /\ out.val = RollingRow(out.row.outer, out.row.inner)

\* self is one byte and other three: the pair is swapped, the three-byte
\* string feeds the outer loop and the row has two cells.
C24_Witness ==
    /\ out.op = "levenshtein_distance"
    /\ a = LatinA
    /\ b = Euro
    /\ out.row = [dp |-> TRUE, outer |-> Euro, inner |-> LatinA, row |-> 2]
    /\ out.val = 1

\* C22: in longest_common_substring every candidate that passes the test
\* len > best.len() has snapped bounds in order, next_char_boundary(ia) <=
\* previous_char_boundary(ia + len), so end - start never underflows, no
\* slice is taken with start > end, and the call returns a slice of self
\* for every pair of valid UTF-8 strings.
C22_LcsSnappedBoundsInOrder ==
    out.op = "longest_common_substring" =>
        /\ ~out.fault
        /\ out.start <= out.end
        /\ SliceOk(a, out.start, out.end)

---------------------------------------------------------------------------
(* Reference notions the in-place claims are stated with.                  *)

\* n copies of fill, byte by byte.
Repeated(fill, n) ==
    [k \in 1..(n * Len(fill)) |-> fill[((k - 1) % Len(fill)) + 1]]

\* s with every tab replaced by width spaces, code point by code point.
RECURSIVE TabsExpanded(_, _)
TabsExpanded(s, width) ==
    IF s = <<>> THEN <<>>
    ELSE LET w == Utf8Width(s[1])
         IN  (IF s[1] = 9 THEN [k \in 1..width |-> 32] ELSE SubSeq(s, 1, w))
                 \o TabsExpanded(SubSeq(s, w + 1, Len(s)), width)

TabCount(s) == Cardinality({k \in 1..Len(s) : s[k] = 9})

\* How many times the code point c occurs in s.
Occurrences(s, c) == Cardinality({k \in 1..Len(chars(s)) : chars(s)[k] = c})

\* The code points that occur in s.
CodePoints(s) == {chars(s)[k] : k \in 1..Len(chars(s))}

\* The sum of the counts of a set of entries with distinct keys.
RECURSIVE SumOfCounts(_)
SumOfCounts(entries) ==
    IF entries = {} THEN 0
    ELSE LET e == CHOOSE x \in entries : TRUE
         IN  e[2] + SumOfCounts(entries \ {e})

\* Whether entries maps exactly the code points of s, each to the number of
\* its occurrences.
CountsCodePointsOf(entries, s) ==
    /\ {e[1] : e \in entries} = CodePoints(s)
    /\ Cardinality(entries) = Cardinality(CodePoints(s))
    /\ \A e \in entries : e[2] = Occurrences(s, e[1])
    /\ SumOfCounts(entries) = Len(chars(s))
    /\ s = <<>> => entries = {}

\* s with every occurrence of the non-empty from, taken left to right and
\* never overlapping, replaced by to: read off s itself, one byte or one
\* occurrence at a time.
RECURSIVE Replaced(_, _, _)
Replaced(s, from, to) ==
    IF Len(s) < Len(from) THEN s
    ELSE IF Slice(s, 0, Len(from)) = from
    THEN to \o Replaced(Slice(s, Len(from), Len(s)), from, to)
    ELSE <<s[1]>> \o Replaced(Tail(s), from, to)

\* Whether every code point of x is whitespace.
AllWhitespace(x) == \A k \in 1..Len(chars(x)) : is_whitespace(chars(x)[k])

\* Where the leading whitespace of s ends: the largest char boundary with
\* only whitespace before it.
LeadingWhitespaceEnd(s) ==
    CHOOSE i \in Boundaries(s) :
        /\ AllWhitespace(Slice(s, 0, i))
        /\ \A j \in Boundaries(s) : AllWhitespace(Slice(s, 0, j)) => j <= i

\* Where the trailing whitespace of s starts: the smallest char boundary
\* with only whitespace after it.
TrailingWhitespaceStart(s) ==
    CHOOSE i \in Boundaries(s) :
        /\ AllWhitespace(Slice(s, i, Len(s)))
        /\ \A j \in Boundaries(s) : AllWhitespace(Slice(s, j, Len(s))) => j >= i

\* s without its leading and trailing whitespace code points.
Trimmed(s) ==
    IF AllWhitespace(s) THEN <<>>
    ELSE Slice(s, LeadingWhitespaceEnd(s), TrailingWhitespaceStart(s))

---------------------------------------------------------------------------
(* Claims about the in-place operations.                                   *)

\* C3: after any sequence of in-place operations on a valid UTF-8 buffer,
\* the buffer is valid UTF-8 at every return: every byte below its length
\* has been written and no code point is split.  (Checked under Spec.)
C3_BufferStaysUtf8 ==
    /\ \A k \in 1..Len(buf) : buf[k] # Uninit
    /\ IsUtf8(buf)

\* C3's case: the manual byte-move path of shift_in_place has just returned
\* on a buffer that starts with a multi-byte code point.
C3_Witness ==
    /\ last.op = "shift_in_place"
    /\ last.path = "move"
    /\ Len(buf) = 5
    /\ buf[1] = 195
    /\ buf[5] = 97

\* C7: shift_in_place(b, index, count, f) at a valid boundary leaves
\* old_b[..index], then count copies of f, then old_b[index..].
\* (Checked under SpecCall.)
C7_ShiftInPlaceInsertsCopies ==
    (last.op = "shift_in_place" /\ last.index \in Boundaries(last.old)) =>
        /\ last.path # "fault"
        /\ buf = Slice(last.old, 0, last.index)
                    \o Repeated(last.fill, last.count)
                    \o Slice(last.old, last.index, Len(last.old))

\* C7's case: the count > 1 path, a multi-byte fill, strictly inside the
\* buffer, with a multi-byte code point in the moved suffix.
C7_Witness ==
    /\ last.op = "shift_in_place"
    /\ last.path = "move"
    /\ last.count > 1
    /\ Len(last.fill) > 1
    /\ last.index > 0
    /\ last.index < Len(last.old)
    /\ last.old[last.index + 1] = 195

\* C8: shift_in_place and shift fault whenever index is not a char boundary
\* or index > len, for every count and fill (count = 0 and the empty fill
\* included), and at the fault the buffer is what it was before the call.
\* (Checked under SpecCall.)
C8_ShiftFaultsBeforeAnyMutation ==
    (/\ last.op \in {"shift_in_place", "shift"}
     /\ (~is_char_boundary(last.old, last.index) \/ last.index > Len(last.old)))
        => (/\ last.path = "fault"
            /\ buf = last.old
            /\ Len(buf) = Len(last.old))

\* C8's case: shift_in_place inside a code point with count = 0.
C8_Witness ==
    /\ last.op = "shift_in_place"
    /\ last.path = "fault"
    /\ last.count = 0
    /\ last.index < Len(last.old)
    /\ last.fill # <<>>

\* C9: expand_tabs_in_place(b, tab_width), tab_width >= 1, leaves the old
\* content with every tab replaced by tab_width spaces and every other code
\* point kept in order; the result has no tab and its length is
\* len(old_b) + (tab_width - 1) * (tabs in old_b).  (Checked under SpecCall.)
C9_ExpandTabsReplacesEveryTab ==
    (last.op = "expand_tabs_in_place" /\ last.count >= 1) =>
        /\ last.path # "fault"
        /\ buf = TabsExpanded(last.old, last.count)
        /\ \A k \in 1..Len(buf) : buf[k] # 9
        /\ Len(buf) = Len(last.old) + (last.count - 1) * TabCount(last.old)

\* C9's case: two tabs around a multi-byte code point, a width that takes
\* the count > 1 path of shift_in_place.
C9_Witness ==
    /\ last.op = "expand_tabs_in_place"
    /\ last.path = "expanded"
    /\ last.count = 3
    /\ TabCount(last.old) = 2
    /\ \E k \in 1..Len(last.old) : last.old[k] >= 128

\* C10: fill_start_in_place(b, f, n), f non-empty and n >= 1, leaves n
\* copies of f followed by the old content, of length len(old_b) + len(f) * n.
\* (Checked under SpecCall.)
C10_FillStartPrepends ==
    (last.op = "fill_start_in_place" /\ last.fill # <<>> /\ last.count >= 1) =>
        /\ buf = Repeated(last.fill, last.count) \o last.old
        /\ Len(buf) = Len(last.old) + Len(last.fill) * last.count

\* C10's case: a multi-byte fill, twice, before a non-empty buffer.
C10_Witness ==
    /\ last.op = "fill_start_in_place"
    /\ last.path = "splice"
    /\ Len(last.fill) > 1
    /\ last.count = 2
    /\ last.old # <<>>

\* C11: center_in_place with a non-empty fill and times >= 1 leaves times
\* copies of the fill, the old content, and times copies of the fill again:
\* the old content starts at byte len(fill) * times and the new length is
\* len(old) + 2 * len(fill) * times.
C11_CenterPadsBothSides ==
    (last.op = "center_in_place" /\ last.fill # <<>> /\ last.count >= 1) =>
        LET pad == Len(last.fill) * last.count
        IN  /\ buf = Repeated(last.fill, last.count) \o last.old
                        \o Repeated(last.fill, last.count)
            /\ Slice(buf, pad, pad + Len(last.old)) = last.old
            /\ Len(buf) = Len(last.old) + 2 * pad

\* A multi-byte fill goes twice on each side of a buffer that holds a
\* multi-byte code point.
C11_Witness ==
    /\ last.op = "center_in_place"
    /\ last.fill = EAcute
    /\ last.count = 2
    /\ Len(last.old) > Len(chars(last.old))
    /\ buf = EAcute \o EAcute \o last.old \o EAcute \o EAcute

\* C12: enclose_in_place(s, e), either of them possibly empty, leaves a
\* buffer that starts with s, ends with e, is len(s) + len(old) + len(e)
\* bytes long, and gives the old content back once its first len(s) and
\* last len(e) bytes are stripped.
C12_EncloseWrapsContent ==
    last.op = "enclose_in_place" =>
        /\ Len(buf) = Len(last.fill) + Len(last.old) + Len(last.fill2)
        /\ Slice(buf, 0, Len(last.fill)) = last.fill
        /\ Slice(buf, Len(buf) - Len(last.fill2), Len(buf)) = last.fill2
        /\ Slice(buf, Len(last.fill), Len(buf) - Len(last.fill2)) = last.old

\* An empty start fill and a three-byte end fill around a non-empty buffer.
C12_Witness ==
    /\ last.op = "enclose_in_place"
    /\ last.fill = <<>>
    /\ last.fill2 = Euro
    /\ last.old # <<>>
    /\ buf = last.old \o Euro

\* C13: the calls that have nothing to add leave the bytes and the length of
\* the buffer as they were: fill_start_in_place, fill_end_in_place and
\* center_in_place with an empty fill or times = 0; shift_in_place at a valid
\* index with an empty fill or count = 0; enclose_in_place with both fills
\* empty; expand_tabs_in_place with a tab width of 0 or on an empty buffer.
C13_NothingToAddIsNoop ==
    /\ (/\ last.op \in {"fill_start_in_place", "fill_end_in_place", "center_in_place"}
        /\ (last.fill = <<>> \/ last.count = 0)) => buf = last.old
    /\ (/\ last.op = "shift_in_place"
        /\ ShiftPrecondition(last.old, last.index)
        /\ (last.fill = <<>> \/ last.count = 0)) => buf = last.old
    /\ (last.op = "enclose_in_place" /\ last.fill = <<>> /\ last.fill2 = <<>>) =>
            buf = last.old
    /\ (last.op = "expand_tabs_in_place" /\ (last.count = 0 \/ last.old = <<>>)) =>
            buf = last.old

\* A tab width of 0 on a buffer that holds a tab.
C13_Witness ==
    /\ last.op = "expand_tabs_in_place"
    /\ last.count = 0
    /\ TabCount(last.old) >= 1
    /\ buf = last.old

\* C14: each allocating method of StrExt (fill_start, fill_end, center,
\* enclose, expand_tabs, shift) returns exactly the String its _in_place
\* counterpart leaves on a copy of the receiver, and leaves the receiver as
\* it was; shift and shift_in_place fault on the same indices.
C14_AllocatingAgreesWithInPlace ==
    /\ last.op \in {"fill_start", "fill_end", "center", "enclose", "expand_tabs", "shift"}
            => buf = last.old
    /\ last.op = "fill_start" =>
            last.ret = fill_start_in_place(last.old, last.fill, last.count).bytes
    /\ last.op = "fill_end" =>
            last.ret = fill_end_in_place(last.old, last.fill, last.count).bytes
    /\ last.op = "center" =>
            last.ret = center_in_place(last.old, last.fill, last.count).bytes
    /\ last.op = "enclose" =>
            last.ret = enclose_in_place(last.old, last.fill, last.fill2).bytes
    /\ last.op = "expand_tabs" =>
            LET r == expand_tabs_in_place(last.old, last.count)
            IN  r.path # "fault" /\ last.ret = r.bytes
    /\ last.op = "shift" =>
            LET r == shift_in_place(last.old, last.index, last.count, last.fill)
            IN  /\ (last.path = "fault") <=> (r.path = "fault")
                /\ last.path # "fault" => last.ret = r.bytes

\* expand_tabs with a tab width of 8 on a receiver with a tab after a
\* multi-byte code point.
C14_Witness ==
    /\ last.op = "expand_tabs"
    /\ last.count = 8
    /\ buf = EAcute \o Tab \o LatinA
    /\ last.ret = EAcute \o Repeated(Space, 8) \o LatinA

\* C17: trim_start_in_place removes the leading whitespace code points and
\* only those, trim_end_in_place the trailing ones and only those,
\* trim_in_place both (an all-whitespace buffer becomes empty; whitespace at
\* the other end and in the interior stays); each is idempotent, never
\* makes the buffer longer and never changes its capacity.
C17_TrimsRemoveOnlyOuterWhitespace ==
    /\ last.op = "trim_start_in_place" =>
            /\ buf = Slice(last.old, LeadingWhitespaceEnd(last.old), Len(last.old))
            /\ trim_start_in_place(buf).bytes = buf
    /\ last.op = "trim_end_in_place" =>
            /\ buf = Slice(last.old, 0, TrailingWhitespaceStart(last.old))
            /\ trim_end_in_place(buf).bytes = buf
    /\ last.op = "trim_in_place" =>
            /\ buf = Trimmed(last.old)
            /\ trim_in_place(buf).bytes = buf
    /\ last.op \in {"trim_start_in_place", "trim_end_in_place", "trim_in_place"} =>
            /\ Len(buf) <= Len(last.old)
            /\ cap = last.cap

\* trim_in_place takes a two-byte whitespace code point from the front and a
\* space from the back of a buffer with spare capacity.
C17_Witness ==
    /\ last.op = "trim_in_place"
    /\ last.old = Nbsp \o LatinA \o Space
    /\ buf = LatinA
    /\ last.cap > Len(last.old)
    /\ cap = last.cap

\* C18, as stated: for every string s, every fill f made of whitespace only
\* and every n, trim(fill_start(fill_end(s, f, n), f, n)) equals s.
C18_TrimOfPaddedGivesBack ==
    last.op = "trim_of_padded" => last.ret = last.old

\* C18, amended: for every string s, every fill f made of whitespace only
\* and every n, trim(fill_start(fill_end(s, f, n), f, n)) equals s without
\* its own leading and trailing whitespace; it equals s when s neither
\* starts nor ends with a whitespace code point.
C18_TrimOfPaddedGivesBackTrimmed ==
    last.op = "trim_of_padded" =>
        /\ last.ret = Trimmed(last.old)
        /\ (/\ LeadingWhitespaceEnd(last.old) = 0
            /\ TrailingWhitespaceStart(last.old) = Len(last.old)) => last.ret = last.old

\* Two copies of a two-code-point whitespace fill on each side of a string
\* with whitespace in its interior only.
C18_Witness ==
    /\ last.op = "trim_of_padded"
    /\ last.old = LatinA \o Space \o LatinA
    /\ last.fill = Space \o Tab
    /\ last.count = 2
    /\ last.ret = last.old

\* C19: for both map types the map char_frequencies(s) returns has the code
\* points of s as its keys and, for each, the number of its occurrences as
\* the value (the values sum to the number of code points of s; the map of
\* the empty string is empty); the BTreeMap and the HashMap hold the same
\* entries.
C19_CharFrequenciesCountsCodePoints ==
    /\ last.op = "char_frequencies::<BTreeMap>" =>
            LET entries == {last.btree[k] : k \in 1..Len(last.btree)}
            IN  /\ Cardinality(entries) = Len(last.btree)
                /\ CountsCodePointsOf(entries, last.old)
                /\ entries = char_frequencies_HashMap(last.old)
    /\ last.op = "char_frequencies::<HashMap>" =>
            /\ CountsCodePointsOf(last.hash, last.old)
            /\ last.hash = {char_frequencies_BTreeMap(last.old)[k] :
                               k \in 1..Len(char_frequencies_BTreeMap(last.old))}

\* A two-byte code point seen twice with a smaller one in between: the
\* BTreeMap inserts in front of an entry and then increments that entry.
C19_Witness ==
    /\ last.op = "char_frequencies::<BTreeMap>"
    /\ last.old = EAcute \o LatinA \o EAcute
    /\ last.btree = << <<97, 1>>, <<233, 2>> >>

\* C20: replace_in_place(from, to) leaves the buffer as it is when the
\* buffer or from is empty; otherwise it ends with every non-overlapping
\* occurrence of from in the old content, found left to right, replaced by
\* to, and text it has written is never searched again (from = the whole
\* buffer and to = from twice gives from twice).
C20_ReplaceInPlaceReplacesEachOccurrenceOnce ==
    last.op = "replace_in_place" =>
        /\ (last.old = <<>> \/ last.fill = <<>>) => buf = last.old
        /\ (last.old # <<>> /\ last.fill # <<>>) =>
               buf = Replaced(last.old, last.fill, last.fill2)
        /\ (last.old = last.fill /\ last.fill2 = last.fill \o last.fill) =>
               buf = last.fill2

\* The replacement holds the pattern: each of the two occurrences is
\* replaced once and the written text is left alone.
C20_Witness ==
    /\ last.op = "replace_in_place"
    /\ last.old = LatinA \o Space \o LatinA
    /\ last.fill = LatinA
    /\ last.fill2 = LatinA \o LatinA
    /\ buf = LatinA \o LatinA \o Space \o LatinA \o LatinA

\* The in-place operations that splice bytes into the buffer.
SpliceOps == {"fill_start_in_place", "fill_end_in_place", "center_in_place",
              "enclose_in_place", "shift_in_place", "expand_tabs_in_place"}

\* C21, as stated: no call of fill_start_in_place, fill_end_in_place,
\* center_in_place, enclose_in_place, shift_in_place or expand_tabs_in_place
\* makes the capacity grow more than once, a buffer with several tabs
\* included.
C21_AtMostOneGrowthPerCall ==
    last.op \in SpliceOps => Growths(last.cap, last.mem) <= 1

\* C21, amended: a call of fill_start_in_place, fill_end_in_place,
\* center_in_place, enclose_in_place or shift_in_place makes the capacity
\* grow at most once; a call of expand_tabs_in_place asks for room once per
\* tab (for a tab width of 2 or more) and makes the capacity grow at most
\* once per tab of the buffer it found.
C21_AtMostOneGrowthPerCallOrTab ==
    /\ last.op \in SpliceOps \ {"expand_tabs_in_place"} =>
            Growths(last.cap, last.mem) <= 1
    /\ last.op = "expand_tabs_in_place" =>
            /\ Growths(last.cap, last.mem) <= TabCount(last.old)
            /\ last.count >= 2 => Len(last.mem) = TabCount(last.old)
            /\ last.count < 2 => last.mem = <<>>
    /\ last.op \in SpliceOps => cap = AfterRequests(last.cap, last.mem)

\* Two tabs widened to 8 in a buffer of exact capacity: the room made for
\* the first tab does not hold the second, and the capacity grows twice.
C21_Witness ==
    /\ last.op = "expand_tabs_in_place"
    /\ last.old = Tab \o Tab
    /\ last.count = 8
    /\ last.cap = 2
    /\ Growths(last.cap, last.mem) = 2
    /\ cap = 18

\* In the loop of expand_tabs_in_place the scan index is a char boundary of
\* the buffer as it is now and does not pass its end; no slice and no
\* assertion has panicked; a call that has returned has left what the call
\* as a whole leaves.
ExpandTabsIndexOnBoundary ==
    last.op = "expand_tabs_in_place" =>
        /\ last.path # "fault"
        /\ last.path = "loop" =>
               /\ is_char_boundary(buf, last.index)
               /\ last.index <= Len(buf)
        /\ last.path = "returned" =>
               buf = expand_tabs_in_place(last.old, last.count).bytes

\* From one head of the loop to the next the scan index moves forward: by
\* the tab width after a tab, to the next boundary otherwise.
ExpandTabsIndexAdvances ==
    (last.path = "loop" /\ last'.path = "loop") =>
        /\ last'.index > last.index
        /\ buf[last.index + 1] = Tab[1] => last'.index = last.index + last.count
        /\ buf[last.index + 1] # Tab[1] =>
               /\ last'.index \in Boundaries(buf)
               /\ \A j \in Boundaries(buf) : j > last.index => last'.index <= j

\* C23: in expand_tabs_in_place with a tab width of 1 or more, at the head
\* of every loop iteration the scan index i is a char boundary of the
\* buffer with i <= len, and i grows with every iteration (by the tab width
\* after a tab, to the next boundary otherwise); so the slice at i and the
\* assertions of shift_in_place never panic, and the loop ends for every
\* buffer.
C23_ExpandTabsLoopAdvancesOnBoundaries ==
    /\ []ExpandTabsIndexOnBoundary
    /\ [][ExpandTabsIndexAdvances]_vars
    /\ <>(last.path = "returned")

\* The head of the loop after a two-byte code point was stepped over and a
\* tab widened to 3: the index stands behind the spaces, on the next
\* two-byte code point.
C23_Witness ==
    /\ last.op = "expand_tabs_in_place"
    /\ last.path = "loop"
    /\ last.old = EAcute \o Tab \o EAcute
    /\ last.count = 3
    /\ last.index = 5
    /\ buf = EAcute \o Repeated(Space, 3) \o EAcute

===========================================================================
